---- MODULE Spec2Model ----
(***************************************************************************)
(* Monte Carlo Tree Search engine of hybrid_nlg/mcts.py: CounterNode,      *)
(* RessourceDistributor, EvalBuffer and MCTS.                              *)
(*                                                                         *)
(* A GrammarNode is named by its path from the domain root (a sequence of  *)
(* child indices); a CounterNode is named by <<run, path>>, the restart    *)
(* that created it and the path of the GrammarNode it wraps.  Scores are   *)
(* integers.  The single-player UCB is computed as the code computes it, in  *)
(* IEEE-754 doubles.                                                       *)
(***************************************************************************)
EXTENDS Integers, Sequences, FiniteSets, TLC

VARIABLES
    root,               \* search(root, ...): the domain tree
    nb_of_tree_walks,   \* search(..., nb_of_tree_walks)
    mean_depth,         \* what root.estimate_mean_depth(nb_samples=50) returns
    allocation_strategy,\* MCTS.allocation_strategy
    nb_random_restarts, \* MCTS.nb_random_restarts
    eb,                 \* MCTS.eval_buffer (its lm_scorer included)
    rd,                 \* MCTS.ressource_distributor
    nodes,              \* the CounterNodes created so far, by <<run, path>>
    counter_root,       \* single_search: counter_root
    current_depth,      \* single_search: current_depth
    i,                  \* search: number of single_search calls completed
    pc,                 \* position in search / single_search
    fault,              \* the exception that ended the call, "" if none
    result,             \* what search returned: <<best_sentence, best_score, counter_root>>
    picks,              \* history: per CounterNode, the child indices selection_policy returned
    log,                \* history: leaves handed to add, rewards handed to backpropagate
    ops,                \* history: the EvalBuffer methods a direct client called
    out                 \* history: what each direct pop_results call returned

vars == <<root, nb_of_tree_walks, mean_depth, allocation_strategy, nb_random_restarts,
          eb, rd, nodes, counter_root, current_depth, i, pc, fault, result,
          picks, log, ops, out>>

----------------------------------------------------------------------------
(* Bounds of the model *)

MaxWalks == 5
MaxCapacity == 2
MaxRestarts == 2
MaxMeanDepth == 3
MaxOps == 4
MaxBatch == 3
ExtraWalks == 1

----------------------------------------------------------------------------
(* GrammarNode: the domain tree (external collaborator, stubbed) *)

Leaf(t) == [kids |-> <<>>, text |-> t, dead |-> FALSE]
DeadEnd(t) == [kids |-> <<>>, text |-> t, dead |-> TRUE]
Inner(ks) == [kids |-> ks, text |-> "", dead |-> FALSE]

\* one terminal node only
TreeLeaf == Leaf("a")
\* two leaves: solved after 3 iterations
TreePair == Inner(<<Leaf("a"), Leaf("b")>>)
\* depth 2, branching factor 2
TreeBin2 == Inner(<<Inner(<<Leaf("a"), Leaf("b")>>), Inner(<<Leaf("c"), Leaf("d")>>)>>)
\* a node with a dead end, then a leaf
TreeSmall == Inner(<<Inner(<<Leaf("a"), DeadEnd("x")>>), Leaf("b")>>)
\* three children of the root: a leaf, a node with a dead end, a deeper node;
\* the text "a" is rendered by two different leaves
TreeMix == Inner(<<Leaf("a"),
                   Inner(<<Leaf("b"), DeadEnd("x")>>),
                   Inner(<<Leaf("d"), Inner(<<Leaf("a"), Leaf("e")>>)>>)>>)
\* depth 3, branching factor 2, 8 leaves
TreeBin3 == Inner(<<Inner(<<Inner(<<Leaf("a"), Leaf("b")>>), Inner(<<Leaf("c"), Leaf("d")>>)>>),
                    Inner(<<Inner(<<Leaf("e"), Leaf("f")>>), Inner(<<Leaf("g"), Leaf("h")>>)>>)>>)

Texts == {"a", "b", "c", "d", "e", "f", "g", "h", "x"}

\* scorer stubs: a fixed score per text
ScoresA == [t \in Texts |->
              CASE t = "a" -> 3 [] t = "b" -> 1 [] t = "c" -> 4 [] t = "d" -> 8
                [] t = "e" -> 5 [] t = "f" -> 7 [] t = "g" -> 2 [] t = "h" -> 6
                [] OTHER -> 9]
ScoresB == [t \in Texts |->
              CASE t = "a" -> 2 [] t = "b" -> 0 [] t = "c" -> 0 [] t = "d" -> 1
                [] t = "e" -> 5 [] t = "f" -> 1 [] t = "g" -> 7 [] t = "h" -> 3
                [] OTHER -> 9]

ScoresC == [t \in Texts |->
              CASE t = "a" -> 7 [] t = "b" -> 6 [] t = "c" -> 5 [] t = "d" -> 4
                [] t = "e" -> 3 [] t = "f" -> 2 [] t = "g" -> 1 [] t = "h" -> 0
                [] OTHER -> 9]

ScoresD == [t \in Texts |->
              CASE t = "a" -> 0 [] t = "b" -> 9 [] t = "c" -> 3 [] t = "d" -> 6
                [] t = "e" -> 4 [] t = "f" -> 1 [] t = "g" -> 2 [] t = "h" -> 7
                [] OTHER -> 9]

ScoresE == [t \in Texts |->
              CASE t = "a" -> 1 [] t = "b" -> 8 [] t = "c" -> 5 [] t = "d" -> 9
                [] t = "e" -> 3 [] t = "f" -> 4 [] t = "g" -> 7 [] t = "h" -> 6
                [] OTHER -> 9]

RECURSIVE TreeSize(_)
RECURSIVE SizeOfKids(_, _)
\* the number of nodes of a tree
TreeSize(t) == 1 + SizeOfKids(t.kids, 1)
SizeOfKids(ks, k) == IF k > Len(ks) THEN 0 ELSE TreeSize(ks[k]) + SizeOfKids(ks, k + 1)

RECURSIVE Sub(_, _)
\* the GrammarNode at path p below node t
Sub(t, p) == IF p = <<>> THEN t ELSE Sub(t.kids[Head(p)], Tail(p))

GNode(p) == Sub(root, p)
\* GrammarNode.is_terminal
g_is_terminal(p) == GNode(p).kids = <<>>
\* GrammarNode.is_dead_end
g_is_dead_end(p) == GNode(p).dead
\* str(grammar_leaf)
Str(p) == GNode(p).text
RECURSIVE LeavesUnder(_)
\* the terminal nodes that repeated random_child can reach from p
LeavesUnder(p) ==
    IF g_is_terminal(p) THEN {p}
    ELSE UNION {LeavesUnder(Append(p, k)) : k \in 1..Len(GNode(p).kids)}

----------------------------------------------------------------------------
(* CounterNode *)

None == <<0>>                       \* no GrammarNode / no CounterNode
NoNode == <<0, <<>>>>

\* CounterNode.__init__
NewCounterNode ==
    [count |-> 0, sum_rewards |-> 0, sum_of_square_rewards |-> 0,
     top_reward |-> -1, top_leaf_node |-> None,
     freeze |-> FALSE, solved |-> FALSE, expanded |-> FALSE]

HasParent(id) == id[2] # <<>>
Parent(id) == <<id[1], SubSeq(id[2], 1, Len(id[2]) - 1)>>
\* CounterNode.children (of an expanded node)
Children(id) == [k \in 1..Len(GNode(id[2]).kids) |-> <<id[1], Append(id[2], k)>>]
ChildSet(id) == {Children(id)[k] : k \in 1..Len(Children(id))}

\* CounterNode.expand
expand(ns, id) ==
    [x \in DOMAIN ns \cup ChildSet(id) |->
        IF x \in ChildSet(id) THEN NewCounterNode
        ELSE IF x = id THEN [ns[x] EXCEPT !.expanded = TRUE]
        ELSE ns[x]]

RECURSIVE backpropagate_through_frozen(_, _, _, _)
\* backpropagate without the test of freeze
backpropagate_through_frozen(ns, id, new_reward, leaf) ==
    LET n == ns[id]
        better == new_reward > n.top_reward
        upd == [ns EXCEPT ![id] =
                   [n EXCEPT !.sum_rewards = @ + new_reward,
                             !.sum_of_square_rewards = @ + new_reward * new_reward,
                             !.top_reward = IF better THEN new_reward ELSE @,
                             !.top_leaf_node = IF better THEN leaf ELSE @]]
    IN  IF HasParent(id) THEN backpropagate_through_frozen(upd, Parent(id), new_reward, leaf)
        ELSE upd

RECURSIVE backpropagate(_, _, _, _)
\* CounterNode.backpropagate
backpropagate(ns, id, new_reward, leaf) ==
    IF ns[id].freeze THEN ns
    ELSE LET n == ns[id]
             better == new_reward > n.top_reward
             upd == [ns EXCEPT ![id] =
                        [n EXCEPT !.sum_rewards = @ + new_reward,
                                  !.sum_of_square_rewards = @ + new_reward * new_reward,
                                  !.top_reward = IF better THEN new_reward ELSE @,
                                  !.top_leaf_node = IF better THEN leaf ELSE @]]
         IN  IF HasParent(id) THEN backpropagate(upd, Parent(id), new_reward, leaf)
             ELSE upd

RECURSIVE set_as_solved_any_brother(_, _)
\* set_as_solved that does not look at the brothers before solving the parent
set_as_solved_any_brother(ns, id) ==
    LET s == [ns EXCEPT ![id].solved = TRUE]
    IN  IF HasParent(id) /\ ~s[Parent(id)].freeze
        THEN set_as_solved_any_brother(s, Parent(id))
        ELSE s

\* set_as_solved that never passes the information to the parent
set_as_solved_alone(ns, id) == [ns EXCEPT ![id].solved = TRUE]

RECURSIVE set_as_solved(_, _)
\* CounterNode.set_as_solved
set_as_solved(ns, id) ==
    LET s == [ns EXCEPT ![id].solved = TRUE]
    IN  IF HasParent(id) /\ ~s[Parent(id)].freeze
        THEN IF \A b \in ChildSet(Parent(id)) : s[b].solved
             THEN set_as_solved(s, Parent(id))
             ELSE s
        ELSE s

----------------------------------------------------------------------------
(* RessourceDistributor *)

\* RessourceDistributor.reset
reset(d) ==
    [d EXCEPT !.current_depth = 1,
              !.ressources_already_consumed = 0,
              !.ressources_already_consumed_at_current_depth = 0]

\* RessourceDistributor.__init__.  ressources_to_consume_at_current_depth is kept
\* as the exact fraction num/den (ressources / average_depth * 1.2 = 6*ressources /
\* (5*average_depth)); has_quota is FALSE when __init__ never sets the attribute.
NewRessourceDistributor(strategy, average_depth, ressources) ==
    LET st == IF strategy = "" THEN "ALL_FROM_ROOT" ELSE strategy
    IN  reset([strategy |-> st,
               ressources_to_consume |-> ressources,
               has_quota |-> st \in {"ALL_FROM_ROOT", "UNIFORM"},
               quota_num |-> IF st = "UNIFORM" THEN 6 * ressources ELSE ressources,
               quota_den |-> IF st = "UNIFORM" THEN 5 * average_depth ELSE 1,
               current_depth |-> 1,
               ressources_already_consumed |-> 0,
               ressources_already_consumed_at_current_depth |-> 0])

\* set_new_position that leaves the consumption at the current depth alone
set_new_position_keeps_consumed(d, depth) == [d EXCEPT !.current_depth = depth]

\* RessourceDistributor.set_new_position
set_new_position(d, depth) ==
    [d EXCEPT !.current_depth = depth,
              !.ressources_already_consumed_at_current_depth = 0]

\* RessourceDistributor.consume_one_unit
consume_one_unit(d) ==
    [d EXCEPT !.ressources_already_consumed = @ + 1,
              !.ressources_already_consumed_at_current_depth = @ + 1]

\* still_has_ressources that allows one more unit than the budget
still_has_ressources_one_more(d) == d.ressources_already_consumed <= d.ressources_to_consume

\* RessourceDistributor.still_has_ressources
still_has_ressources(d) == d.ressources_already_consumed < d.ressources_to_consume

\* should_go_down_into_the_tree without the test of the strategy
should_go_down_any_strategy(d) ==
    d.ressources_already_consumed_at_current_depth * d.quota_den >= d.quota_num

\* RessourceDistributor.should_go_down_into_the_tree (when it does not raise)
should_go_down_into_the_tree(d) ==
    IF d.strategy = "ALL_FROM_ROOT" THEN FALSE
    ELSE d.ressources_already_consumed_at_current_depth * d.quota_den >= d.quota_num

\* should_go_down_into_the_tree raises AttributeError: the else branch reads an
\* attribute that __init__ set for neither named strategy
should_go_down_raises(d) == d.strategy # "ALL_FROM_ROOT" /\ ~d.has_quota

----------------------------------------------------------------------------
(* EvalBuffer *)

\* SentenceScore.compute_score of the stub: one score per text, in order; the
\* stub keeps the list of the calls it received
compute_score(scorer, texts) == [k \in 1..Len(texts) |-> scorer.table[texts[k]]]

\* EvalBuffer.__init__
NewEvalBuffer(buffer_size, table) ==
    [lm_scorer |-> [table |-> table, calls |-> <<>>],
     buffer_size |-> buffer_size,
     buffer |-> <<>>,
     results |-> <<>>,
     best_sentence |-> "",
     best_score |-> -1,
     score_history |-> <<>>]

RECURSIVE record_scores_keeps_last(_, _, _)
\* the loop of force_eval that takes every score as the best one so far
record_scores_keeps_last(b, scores, k) ==
    IF k > Len(scores) \/ k > Len(b.buffer) THEN b
    ELSE record_scores_keeps_last(
             [b EXCEPT !.results = Append(@, <<scores[k], b.buffer[k][1], b.buffer[k][2]>>),
                       !.best_score = scores[k],
                       !.best_sentence = Str(b.buffer[k][1])],
             scores, k + 1)

RECURSIVE record_scores(_, _, _)
\* the loop of force_eval over zip(scores, self.buffer), from position k on
record_scores(b, scores, k) ==
    IF k > Len(scores) \/ k > Len(b.buffer) THEN b
    ELSE LET leaf == b.buffer[k][1]
             frontier_counter_node == b.buffer[k][2]
             better == scores[k] > b.best_score
         IN  record_scores(
                 [b EXCEPT !.results = Append(@, <<scores[k], leaf, frontier_counter_node>>),
                           !.best_score = IF better THEN scores[k] ELSE @,
                           !.best_sentence = IF better THEN Str(leaf) ELSE @],
                 scores, k + 1)

\* force_eval that pairs the scores with the buffer in reverse order
force_eval_reversed(b) ==
    IF Len(b.buffer) = 0 THEN b
    ELSE LET n == Len(b.buffer)
             texts == [k \in 1..n |-> Str(b.buffer[k][1])]
             scores == compute_score(b.lm_scorer, texts)
             called == [b EXCEPT !.lm_scorer.calls = Append(@, texts),
                                 !.score_history = @ \o scores,
                                 !.buffer = [k \in 1..n |-> b.buffer[n + 1 - k]]]
         IN  [record_scores(called, scores, 1) EXCEPT !.buffer = <<>>]

\* EvalBuffer.force_eval
force_eval(b) ==
    IF Len(b.buffer) = 0 THEN b
    ELSE LET texts == [k \in 1..Len(b.buffer) |-> Str(b.buffer[k][1])]
             scores == compute_score(b.lm_scorer, texts)
             called == [b EXCEPT !.lm_scorer.calls = Append(@, texts),
                                 !.score_history = @ \o scores]
         IN  [record_scores(called, scores, 1) EXCEPT !.buffer = <<>>]

\* add that sends dead-end leaves to the scorer like any other leaf
add_without_dead_end_test(b, frontier_counter_node, leaf) ==
    LET stored == [b EXCEPT !.buffer = Append(@, <<leaf, frontier_counter_node>>)]
    IN  IF Len(stored.buffer) = stored.buffer_size THEN force_eval(stored) ELSE stored

\* EvalBuffer.add
add(b, frontier_counter_node, leaf) ==
    LET stored == IF g_is_dead_end(leaf)
                  THEN [b EXCEPT !.results = Append(@, <<0, leaf, frontier_counter_node>>)]
                  ELSE [b EXCEPT !.buffer = Append(@, <<leaf, frontier_counter_node>>)]
    IN  IF Len(stored.buffer) = stored.buffer_size THEN force_eval(stored) ELSE stored

\* pop_results that returns the results and keeps them
pop_results_keeps(b) == [buffer |-> b, output |-> b.results]

\* EvalBuffer.pop_results: the buffer afterwards and the list returned
pop_results(b) == [buffer |-> [b EXCEPT !.results = <<>>], output |-> b.results]

----------------------------------------------------------------------------
(* MCTS: selection *)

(* The floats of single_player_ucb are IEEE-754 doubles.  A double is held as  *)
(* the integer 2^62 * value, written in limbs of 15 bits, least significant  *)
(* first, without leading zero limbs (0 is <<>>): every double that the       *)
(* formula meets is a multiple of 2^-62 below 2^13.                          *)

Base == 32768

\* the fraction bits of the unit
FracBits == 62

RECURSIVE BigNorm(_)
\* a without its leading zero limbs
BigNorm(a) ==
    IF a = <<>> THEN a
    ELSE IF a[Len(a)] = 0 THEN BigNorm(SubSeq(a, 1, Len(a) - 1))
    ELSE a

RECURSIVE BigFromInt(_)
\* the limbs of k >= 0
BigFromInt(k) == IF k = 0 THEN <<>> ELSE <<k % Base>> \o BigFromInt(k \div Base)

RECURSIVE BigToInt(_)
\* the integer of a, below 2^31
BigToInt(a) == IF a = <<>> THEN 0 ELSE a[1] + Base * BigToInt(Tail(a))

Limb(a, k) == IF k <= Len(a) THEN a[k] ELSE 0

RECURSIVE BigMulSmallFrom(_, _, _, _)
BigMulSmallFrom(a, k, j, carry) ==
    IF j > Len(a) THEN BigFromInt(carry)
    ELSE <<(a[j] * k + carry) % Base>>
         \o BigMulSmallFrom(a, k, j + 1, (a[j] * k + carry) \div Base)

\* a * k, 0 <= k <= 2^15
BigMulSmall(a, k) == IF k = 0 THEN <<>> ELSE BigMulSmallFrom(a, k, 1, 0)

\* a * 2^(15 * limbs)
BigShiftLimbs(a, limbs) == IF a = <<>> THEN a ELSE [k \in 1..limbs |-> 0] \o a

\* a * 2^bits
BigShl(a, bits) == BigShiftLimbs(BigMulSmall(a, 2 ^ (bits % 15)), bits \div 15)

RECURSIVE BigDivSmallFrom(_, _, _, _)
BigDivSmallFrom(a, k, j, r) ==
    IF j = 0 THEN <<<<>>, r>>
    ELSE LET rest == BigDivSmallFrom(a, k, j - 1, (r * Base + a[j]) % k)
         IN  <<Append(rest[1], (r * Base + a[j]) \div k), rest[2]>>

\* <<a \div k, a % k>>, 1 <= k <= 2^15
BigDivSmall(a, k) ==
    LET d == BigDivSmallFrom(a, k, Len(a), 0) IN <<BigNorm(d[1]), d[2]>>

\* a \div 2^bits
BigShr(a, bits) ==
    IF bits \div 15 >= Len(a) THEN <<>>
    ELSE BigDivSmall(SubSeq(a, (bits \div 15) + 1, Len(a)), 2 ^ (bits % 15))[1]

RECURSIVE BigAddFrom(_, _, _, _)
BigAddFrom(a, b, j, carry) ==
    IF j > Len(a) /\ j > Len(b) THEN BigFromInt(carry)
    ELSE <<(Limb(a, j) + Limb(b, j) + carry) % Base>>
         \o BigAddFrom(a, b, j + 1, (Limb(a, j) + Limb(b, j) + carry) \div Base)

\* a + b
BigAdd(a, b) == BigAddFrom(a, b, 1, 0)

RECURSIVE BigSubFrom(_, _, _, _)
BigSubFrom(a, b, j, borrow) ==
    IF j > Len(a) THEN <<>>
    ELSE IF a[j] - Limb(b, j) - borrow < 0
    THEN <<a[j] - Limb(b, j) - borrow + Base>> \o BigSubFrom(a, b, j + 1, 1)
    ELSE <<a[j] - Limb(b, j) - borrow>> \o BigSubFrom(a, b, j + 1, 0)

\* a - b, a >= b
BigSub(a, b) == BigNorm(BigSubFrom(a, b, 1, 0))

RECURSIVE BigLessFrom(_, _, _)
BigLessFrom(a, b, j) ==
    IF j = 0 THEN FALSE
    ELSE IF a[j] # b[j] THEN a[j] < b[j]
    ELSE BigLessFrom(a, b, j - 1)

\* a < b
BigLess(a, b) ==
    IF Len(a) # Len(b) THEN Len(a) < Len(b) ELSE BigLessFrom(a, b, Len(a))

RECURSIVE BigMulFrom(_, _, _)
BigMulFrom(a, b, j) ==
    IF j > Len(b) THEN <<>>
    ELSE BigAdd(BigShiftLimbs(BigMulSmall(a, b[j]), j - 1), BigMulFrom(a, b, j + 1))

\* a * b
BigMul(a, b) == BigMulFrom(a, b, 1)

\* the number of bits of a
BigBits(a) ==
    IF a = <<>> THEN 0
    ELSE 15 * (Len(a) - 1)
         + (CHOOSE k \in 1..15 : 2 ^ (k - 1) <= a[Len(a)] /\ a[Len(a)] < 2 ^ k)

\* bit k of a, bit 0 the least significant
BigBit(a, k) == (Limb(a, (k \div 15) + 1) \div (2 ^ (k % 15))) % 2

\* the element of a set of one element.  The steps of a computation are written
\* as sets of one element, each the image of the step before it, so that they
\* are evaluated one after the other
TheOne(S) == CHOOSE v \in S : TRUE

\* the rounding of every floating-point operation: the double nearest to a
\* real number, the even one of two equally near.  a is the floor of the real
\* number in units of 2^-62 or finer, sticky tells that the real number is
\* above a.
Round53(a, sticky) ==
    LET k == BigBits(a) - 53
        half == BigShl(<<1>>, k)
        \* a \div 2^k
        q == {BigShr(a, k)}
        \* with twice what a has above q * 2^k
        rest == {<<x, BigShl(BigSub(a, BigShl(x, k)), 1)>> : x \in q}
        \* with whether q + 1 is the nearest
        up == {<<x[1], \/ BigLess(half, x[2])
                       \/ x[2] = half /\ (sticky \/ x[1][1] % 2 = 1)>> : x \in rest}
        nearest == {BigShl(IF x[2] THEN BigAdd(x[1], <<1>>) ELSE x[1], k) : x \in up}
    IN  IF k <= 0 THEN a ELSE TheOne(nearest)

\* one bit of the square root of a.  st is <<r, rem, k>>: r is the root of the
\* bits of a above bit 2k + 1 and rem what these bits leave
BigSqrtStep(a, st) ==
    LET \* more is rem with the next two bits of a and trial is 4r + 1
        next(more, trial) ==
            IF BigLess(more, trial)
            THEN <<BigShl(st[1], 1), more, st[3] - 1>>
            ELSE <<BigAdd(BigShl(st[1], 1), <<1>>), BigSub(more, trial), st[3] - 1>>
    IN  next(BigAdd(BigShl(st[2], 2),
                    BigFromInt(2 * BigBit(a, 2 * st[3] + 1) + BigBit(a, 2 * st[3]))),
             BigAdd(BigShl(st[1], 2), <<1>>))

RECURSIVE BigSqrtSteps(_, _, _)
\* at most m bits of the square root of a
BigSqrtSteps(a, st, m) ==
    IF m = 0 \/ st[3] < 0 THEN st
    ELSE BigSqrtSteps(a, BigSqrtStep(a, st), m - 1)

RECURSIVE BigSqrtFrom(_, _)
\* the square root of a bit by bit, eight bits at a time
BigSqrtFrom(a, st) ==
    IF st[3] < 0 THEN <<st[1], st[2]>>
    ELSE BigSqrtFrom(a, BigSqrtSteps(a, st, 8))

\* <<r, rem>> with r = floor(sqrt(a)) and rem = a - r * r
BigSqrt(a) == BigSqrtFrom(a, <<<<>>, <<>>, (BigBits(a) + 1) \div 2 - 1>>)

\* math.sqrt(c * math.log(parent.count / child.count)) with c = 1, for
\* 1 <= child.count <= parent.count <= 24, at [parent.count][child.count]: the
\* double that the three operations return
SqrtLogTable ==
    <<
      <<<<>>>>,
      <<<<3584, 1845, 19595, 10820, 3>>, <<>>>>,
      <<<<12288, 2999, 24028, 6310, 4>>, <<4608, 11892, 19433, 17925, 2>>, <<>>>>,
      <<<<3072, 22498, 15940, 23253, 4>>, <<3584, 1845, 19595, 10820, 3>>,
        <<13312, 12345, 25582, 4765, 2>>, <<>>>>,
      <<<<23552, 12661, 22590, 2442, 5>>, <<7680, 28279, 4929, 27162, 3>>,
        <<17408, 9502, 28394, 28143, 2>>, <<13824, 1910, 29054, 29147, 1>>, <<>>>>,
      <<<<1024, 14187, 17984, 11608, 5>>, <<12288, 2999, 24028, 6310, 4>>,
        <<3584, 1845, 19595, 10820, 3>>, <<4608, 11892, 19433, 17925, 2>>,
        <<2560, 12200, 19713, 23198, 1>>, <<>>>>,
      <<<<14336, 2197, 1452, 19000, 5>>, <<5120, 30629, 26836, 15632, 4>>,
        <<9728, 22891, 5961, 22346, 3>>, <<16896, 29557, 21292, 32515, 2>>,
        <<13824, 19794, 30205, 10493, 2>>, <<15616, 2003, 17190, 18693, 1>>, <<>>>>,
      <<<<21504, 29605, 11405, 25169, 5>>, <<3072, 22498, 15940, 23253, 4>>,
        <<4608, 19379, 17894, 31505, 3>>, <<3584, 1845, 19595, 10820, 3>>,
        <<18432, 15212, 25654, 24322, 2>>, <<13312, 12345, 25582, 4765, 2>>,
        <<22784, 31077, 8565, 15128, 1>>, <<>>>>,
      <<<<15360, 12443, 17191, 30448, 5>>, <<0, 14486, 25981, 29675, 4>>,
        <<12288, 2999, 24028, 6310, 4>>, <<5120, 28302, 16935, 19728, 3>>,
        <<31232, 19368, 9601, 2185, 3>>, <<4608, 11892, 19433, 17925, 2>>,
        <<28672, 13591, 1929, 172, 2>>, <<17920, 16850, 9781, 12215, 1>>, <<>>>>,
      <<<<27648, 25308, 6838, 2284, 6>>, <<23552, 12661, 22590, 2442, 5>>,
        <<17408, 32521, 21703, 12747, 4>>, <<7680, 28279, 4929, 27162, 3>>,
        <<3584, 1845, 19595, 10820, 3>>, <<17408, 9502, 28394, 28143, 2>>,
        <<4096, 30313, 5658, 12743, 2>>, <<13824, 1910, 29054, 29147, 1>>,
        <<5120, 31983, 1097, 9777, 1>>, <<>>>>,
      <<<<5120, 8773, 26634, 6358, 6>>, <<2048, 27898, 15412, 7295, 5>>,
        <<5120, 31718, 27995, 18331, 4>>, <<26624, 16715, 2787, 758, 4>>,
        <<30208, 7124, 17749, 18081, 3>>, <<19456, 16099, 24370, 3741, 3>>,
        <<27648, 18366, 16201, 22583, 2>>, <<26112, 15306, 5379, 8430, 2>>,
        <<5632, 196, 12577, 25947, 1>>, <<13568, 10993, 79, 7697, 1>>, <<>>>>,
      <<<<31744, 9627, 15837, 10008, 6>>, <<1024, 14187, 17984, 11608, 5>>,
        <<3072, 22498, 15940, 23253, 4>>, <<12288, 2999, 24028, 6310, 4>>,
        <<30720, 1524, 15238, 24335, 3>>, <<3584, 1845, 19595, 10820, 3>>,
        <<20992, 8267, 10452, 30692, 2>>, <<4608, 11892, 19433, 17925, 2>>,
        <<13312, 12345, 25582, 4765, 2>>, <<2560, 12200, 19713, 23198, 1>>,
        <<10240, 9707, 6994, 5895, 1>>, <<>>>>,
      <<<<25600, 2539, 27125, 13309, 6>>, <<12288, 9130, 20060, 15484, 5>>,
        <<6144, 12611, 7793, 27646, 4>>, <<29696, 75, 15342, 11227, 4>>,
        <<31232, 27987, 7480, 29819, 3>>, <<26624, 5528, 6699, 16949, 3>>,
        <<20480, 5561, 6473, 4822, 3>>, <<13312, 11478, 28197, 25792, 2>>,
        <<8192, 23488, 15520, 13946, 2>>, <<30720, 23094, 1701, 1601, 2>>,
        <<8448, 19633, 2488, 20804, 1>>, <<2816, 25910, 21438, 4314, 1>>, <<>>>>,
      <<<<19456, 16175, 25123, 16320, 6>>, <<14336, 2197, 1452, 19000, 5>>,
        <<13312, 11862, 18858, 31607, 4>>, <<5120, 30629, 26836, 15632, 4>>,
        <<8192, 26272, 31892, 1926, 4>>, <<9728, 22891, 5961, 22346, 3>>,
        <<3584, 1845, 19595, 10820, 3>>, <<16896, 29557, 21292, 32515, 2>>,
        <<12800, 25211, 7053, 21588, 2>>, <<13824, 19794, 30205, 10493, 2>>,
        <<25600, 7798, 5574, 31599, 1>>, <<15616, 2003, 17190, 18693, 1>>,
        <<20736, 28725, 14466, 2913, 1>>, <<>>>>,
      <<<<31744, 28580, 3536, 19086, 6>>, <<24576, 11278, 4535, 22213, 5>>,
        <<23552, 12661, 22590, 2442, 5>>, <<29696, 16292, 12647, 19618, 4>>,
        <<12288, 2999, 24028, 6310, 4>>, <<7680, 28279, 4929, 27162, 3>>,
        <<2560, 4096, 22468, 16122, 3>>, <<26112, 7463, 7589, 5616, 3>>,
        <<17408, 9502, 28394, 28143, 2>>, <<4608, 11892, 19433, 17925, 2>>,
        <<6656, 32505, 1139, 7460, 2>>, <<13824, 1910, 29054, 29147, 1>>,
        <<19200, 7391, 26121, 16814, 1>>, <<18688, 16291, 629, 1660, 1>>, <<>>>>,
      <<<<7168, 3690, 6422, 21641, 6>>, <<21504, 29605, 11405, 25169, 5>>,
        <<21504, 119, 29202, 5743, 5>>, <<3072, 22498, 15940, 23253, 4>>,
        <<20480, 7736, 14969, 10288, 4>>, <<4608, 19379, 17894, 31505, 3>>,
        <<31232, 4506, 3549, 20869, 3>>, <<3584, 1845, 19595, 10820, 3>>,
        <<12800, 23810, 23977, 1117, 3>>, <<18432, 15212, 25654, 24322, 2>>,
        <<23552, 32547, 2168, 14696, 2>>, <<13312, 12345, 25582, 4765, 2>>,
        <<9984, 9097, 6048, 26958, 1>>, <<22784, 31077, 8565, 15128, 1>>,
        <<29440, 4315, 3221, 530, 1>>, <<>>>>,
      <<<<0, 20361, 12456, 24014, 6>>, <<30720, 26476, 25223, 27904, 5>>,
        <<19456, 32393, 13105, 8787, 5>>, <<18432, 22134, 26735, 26591, 4>>,
        <<13312, 15806, 19414, 13925, 4>>, <<26624, 7270, 4435, 2689, 4>>,
        <<26624, 29410, 19452, 25161, 3>>, <<17920, 13731, 24669, 15492, 3>>,
        <<11264, 26015, 15835, 6224, 3>>, <<26112, 31457, 12947, 29942, 2>>,
        <<13312, 17849, 17065, 20943, 2>>, <<6656, 12096, 14279, 11819, 2>>,
        <<3072, 18364, 23030, 2351, 2>>, <<7680, 16898, 14301, 24986, 1>>,
        <<16896, 11074, 5929, 13603, 1>>, <<3456, 20033, 20859, 32272>>, <<>>>>,
      <<<<7168, 7146, 23954, 26228, 6>>, <<15360, 12443, 17191, 30448, 5>>,
        <<1024, 14187, 17984, 11608, 5>>, <<0, 14486, 25981, 29675, 4>>,
        <<26624, 16043, 4072, 17273, 4>>, <<12288, 2999, 24028, 6310, 4>>,
        <<31232, 17734, 8037, 29076, 3>>, <<5120, 28302, 16935, 19728, 3>>,
        <<3584, 1845, 19595, 10820, 3>>, <<31232, 19368, 9601, 2185, 3>>,
        <<8704, 18314, 31568, 26445, 2>>, <<4608, 11892, 19433, 17925, 2>>,
        <<27648, 25573, 2591, 9235, 2>>, <<28672, 13591, 1929, 172, 2>>,
        <<2560, 12200, 19713, 23198, 1>>, <<17920, 16850, 9781, 12215, 1>>,
        <<4352, 26622, 15254, 31336>>, <<>>>>,
      <<<<26624, 25732, 8636, 28303, 6>>, <<20480, 17923, 14137, 56, 6>>,
        <<27648, 28867, 32703, 14235, 5>>, <<13312, 7984, 16161, 32539, 4>>,
        <<27648, 9286, 17465, 20371, 4>>, <<5120, 22637, 23507, 9650, 4>>,
        <<24576, 29263, 18019, 32671, 3>>, <<10240, 234, 27070, 23599, 3>>,
        <<24576, 25738, 22511, 14996, 3>>, <<3072, 31663, 11813, 6705, 3>>,
        <<1536, 1591, 22518, 31363, 2>>, <<9728, 18351, 5052, 23316, 2>>,
        <<30208, 28787, 30438, 15207, 2>>, <<26624, 557, 5014, 6896, 2>>,
        <<13312, 24349, 32190, 30958, 1>>, <<9472, 2338, 21924, 21567, 1>>,
        <<1792, 18283, 5806, 10945, 1>>, <<29184, 6351, 10891, 30477>>, <<>>>>,
      <<<<25600, 19412, 27100, 30253, 6>>, <<27648, 25308, 6838, 2284, 6>>,
        <<13312, 5669, 9899, 16693, 5>>, <<23552, 12661, 22590, 2442, 5>>,
        <<3072, 22498, 15940, 23253, 4>>, <<17408, 32521, 21703, 12747, 4>>,
        <<14336, 20857, 14951, 3225, 4>>, <<7680, 28279, 4929, 27162, 3>>,
        <<19456, 9416, 31668, 18820, 3>>, <<3584, 1845, 19595, 10820, 3>>,
        <<6656, 12823, 25079, 3040, 3>>, <<17408, 9502, 28394, 28143, 2>>,
        <<1536, 14424, 28456, 20491, 2>>, <<4096, 30313, 5658, 12743, 2>>,
        <<13312, 12345, 25582, 4765, 2>>, <<13824, 1910, 29054, 29147, 1>>,
        <<25600, 9765, 29155, 20071, 1>>, <<5120, 31983, 1097, 9777, 1>>,
        <<26368, 6804, 7099, 29685>>, <<>>>>,
      <<<<3072, 29708, 25059, 32093, 6>>, <<20480, 11702, 11671, 4380, 6>>,
        <<14336, 2197, 1452, 19000, 5>>, <<20480, 21807, 9976, 4944, 5>>,
        <<26624, 29021, 23594, 25945, 4>>, <<5120, 30629, 26836, 15632, 4>>,
        <<12288, 2999, 24028, 6310, 4>>, <<29184, 25100, 6791, 30459, 3>>,
        <<9728, 22891, 5961, 22346, 3>>, <<14336, 11200, 29361, 14595, 3>>,
        <<30720, 11521, 3249, 7095, 3>>, <<16896, 29557, 21292, 32515, 2>>,
        <<27136, 21765, 31219, 25232, 2>>, <<4608, 11892, 19433, 17925, 2>>,
        <<13824, 19794, 30205, 10493, 2>>, <<27648, 18434, 15139, 2814, 2>>,
        <<22272, 17025, 21641, 27483, 1>>, <<15616, 2003, 17190, 18693, 1>>,
        <<7936, 30888, 29436, 8697, 1>>, <<4352, 29992, 27297, 28951>>, <<>>>>,
      <<<<11264, 3567, 13482, 1066, 7>>, <<5120, 8773, 26634, 6358, 6>>,
        <<3072, 26031, 22089, 21172, 5>>, <<2048, 27898, 15412, 7295, 5>>,
        <<11264, 31472, 12572, 28470, 4>>, <<5120, 31718, 27995, 18331, 4>>,
        <<8192, 14069, 8768, 9189, 4>>, <<26624, 16715, 2787, 758, 4>>,
        <<8192, 17014, 457, 25614, 3>>, <<30208, 7124, 17749, 18081, 3>>,
        <<3584, 1845, 19595, 10820, 3>>, <<19456, 16099, 24370, 3741, 3>>,
        <<512, 26750, 16510, 29533, 2>>, <<27648, 18366, 16201, 22583, 2>>,
        <<17920, 24985, 22938, 15579, 2>>, <<26112, 15306, 5379, 8430, 2>>,
        <<3072, 26820, 8727, 1018, 2>>, <<5632, 196, 12577, 25947, 1>>,
        <<29184, 21352, 30780, 17417, 1>>, <<13568, 10993, 79, 7697, 1>>,
        <<8960, 16141, 8625, 28270>>, <<>>>>,
      <<<<27648, 24449, 15516, 2717, 7>>, <<11264, 862, 14929, 8231, 6>>,
        <<23552, 26124, 4451, 23225, 5>>, <<24576, 30888, 10280, 9512, 5>>,
        <<7168, 11640, 904, 30846, 4>>, <<8192, 19430, 3377, 20866, 4>>,
        <<22528, 30722, 22325, 11885, 4>>, <<15360, 11003, 12622, 3623, 4>>,
        <<19456, 20583, 26, 28658, 3>>, <<12800, 9600, 11797, 21317, 3>>,
        <<22016, 2039, 10711, 14265, 3>>, <<28672, 26362, 12310, 7417, 3>>,
        <<24064, 17040, 15558, 700, 3>>, <<12800, 12679, 2406, 26815, 2>>,
        <<5632, 6506, 27151, 20157, 2>>, <<30720, 12664, 30134, 13423, 2>>,
        <<2560, 19040, 15884, 6527, 2>>, <<31488, 20365, 17752, 32125, 1>>,
        <<23552, 30391, 12952, 24523, 1>>, <<7424, 22523, 30723, 16232, 1>>,
        <<16896, 7756, 10427, 6765, 1>>, <<7552, 3790, 22239, 27634>>, <<>>>>,
      <<<<27648, 19884, 10622, 4287, 7>>, <<31744, 9627, 15837, 10008, 6>>,
        <<21504, 29605, 11405, 25169, 5>>, <<1024, 14187, 17984, 11608, 5>>,
        <<25600, 12635, 11045, 320, 5>>, <<3072, 22498, 15940, 23253, 4>>,
        <<25600, 22785, 16350, 14420, 4>>, <<12288, 2999, 24028, 6310, 4>>,
        <<4608, 19379, 17894, 31505, 3>>, <<30720, 1524, 15238, 24335, 3>>,
        <<29184, 4829, 13801, 17467, 3>>, <<3584, 1845, 19595, 10820, 3>>,
        <<26624, 32401, 21988, 4326, 3>>, <<20992, 8267, 10452, 30692, 2>>,
        <<18432, 15212, 25654, 24322, 2>>, <<4608, 11892, 19433, 17925, 2>>,
        <<7680, 31415, 18621, 11433, 2>>, <<13312, 12345, 25582, 4765, 2>>,
        <<19712, 1964, 31909, 30583, 1>>, <<2560, 12200, 19713, 23198, 1>>,
        <<22784, 31077, 8565, 15128, 1>>, <<10240, 9707, 6994, 5895, 1>>,
        <<2688, 13124, 4246, 27040>>, <<>>>>
    >>

RECURSIVE IsqrtBetween(_, _, _)
\* the largest r in lo..hi with r*r <= x
IsqrtBetween(x, lo, hi) ==
    IF lo >= hi THEN lo
    ELSE LET mid == (lo + hi + 1) \div 2
         IN  IF mid * mid <= x THEN IsqrtBetween(x, mid, hi)
             ELSE IsqrtBetween(x, lo, mid - 1)

\* floor(sqrt(x)), 0 <= x < 2^31
Isqrt(x) == IsqrtBetween(x, 0, 46340)

RECURSIVE SqrtDigits(_, _, _)
\* n more decimal digits of a square root, from its floor r and remainder rem:
\* the root with its new digits and the remainder left
SqrtDigits(r, rem, n) ==
    IF n = 0 THEN <<r, rem>>
    ELSE LET d == CHOOSE e \in 0..9 :
                     /\ (20 * r + e) * e <= rem * 100
                     /\ (e = 9 \/ (20 * r + e + 1) * (e + 1) > rem * 100)
         IN  SqrtDigits(10 * r + d, rem * 100 - (20 * r + d) * d, n - 1)

\* <<r, rem>> with r = floor(10^4 * sqrt(x)) and rem = 10^8 * x - r * r
Sqrt4(x) == LET from(r) == SqrtDigits(r, x - r * r, 4) IN from(Isqrt(x))

RECURSIVE LongDiv(_, _, _, _)
\* floor(a * 100^k / m) for 0 <= a <= m, two digits at a time: q is the quotient
\* so far and a the remainder
LongDiv(q, a, m, k) ==
    IF k = 0 THEN q
    ELSE LongDiv(q * 100 + ((a * 100) \div m), (a * 100) % m, m, k - 1)

\* the sum of two pairs <<hi, lo>>, each standing for hi * 10^6 + lo
PairAdd(a, b) ==
    <<a[1] + b[1] + ((a[2] + b[2]) \div 1000000), (a[2] + b[2]) % 1000000>>

\* floor(10^12 * x) of a double x below 2, as a pair <<hi, lo>>
Decimal12(x) ==
    LET pair(low, high) == <<BigToInt(high[1]), high[2] * 1000 + low[2]>>
        split(low) == pair(low, BigDivSmall(low[1], 1000))
    IN  split(BigDivSmall(BigShr(BigMulSmall(BigMulSmall(BigMulSmall(x, 10000), 10000),
                                             10000),
                                 FracBits),
                          1000))

\* sum/n + math.sqrt((sumsq - n*(sum/n)^2 + d)/n) with d = 100, which is
\* (sum + sqrt(n*sumsq - sum^2 + 100*n))/n, as a pair at most 2 units of 10^-12
\* below the real value and exact when the root is an integer:
\* sqrt(x) * 10^4 = r + delta with delta = rem/(2r + delta), delta taken to
\* 8 digits as rem/(2r) less its square over 2r, then the division by n
value_term(n, s, q) ==
    LET digits(q0, q1, q2) ==
            PairAdd(<<q0 * 100 + (q1 \div 100), 0>>, <<0, (q1 % 100) * 10000 + q2>>)
        rest(top, delta, a1) ==
            digits(top \div n, a1 \div n, ((a1 % n) * 10000 + (delta % 10000)) \div n)
        divide(top, delta) == rest(top, delta, (top % n) * 10000 + (delta \div 10000))
        less(r, first) == first - ((first \div 10000) * (first \div 10000)) \div (2 * r)
        refine(r, rem) ==
            divide(s * 10000 + r,
                   less(r, LongDiv(rem \div (2 * r), rem % (2 * r), 2 * r, 4)))
        from(sq) == refine(sq[1], sq[2])
    IN  from(Sqrt4(n * q - s * s + 100 * n))

\* math.log(parent.count / child.count) is negative and math.sqrt raises, or
\* child.count is 0 and the division raises
ucb_raises(ns, child, parent) ==
    \/ ns[child].count = 0
    \/ ns[parent].count < ns[child].count

\* The real value of MCTS.single_player_ucb with c = 1, d = 100,
\*   sum/n + sqrt(ln(N/n)) + sqrt((sumsq - n*(sum/n)^2 + 100)/n),
\* in units of 10^-12, as a pair <<hi, lo>> that stands for hi * 10^6 + lo, at
\* most 3 units below the real value.  The double that the code computes is
\* within 10^-14 of the real value.
ucb_decimal(ns, child, parent) ==
    LET n == ns[child].count
        s == ns[child].sum_rewards
        q == ns[child].sum_of_square_rewards
    IN  PairAdd(value_term(n, s, q), Decimal12(SqrtLogTable[ns[parent].count][n]))

\* MCTS.single_player_ucb with c = 1, d = 100: the double returned, every
\* operation rounded as the code rounds it
single_player_ucb(ns, child, parent) ==
    LET n == ns[child].count
        sumsq == BigShl(BigFromInt(ns[child].sum_of_square_rewards), FracBits)
        d == BigShl(BigFromInt(100), FracBits)
        exploration == SqrtLogTable[ns[parent].count][n]
        \* child.sum_rewards / child.count
        mean == {Round53(x[1], x[2] # 0) :
                    x \in {BigDivSmall(BigShl(BigFromInt(ns[child].sum_rewards), FracBits),
                                       n)}}
        \* the mean with (...) ** 2
        square == {<<m, BigShr(Round53(BigMul(m, m), FALSE), FracBits)>> : m \in mean}
        \* with child.count * (...)
        times == {<<x[1], Round53(BigMulSmall(x[2], n), FALSE)>> : x \in square}
        \* with child.sum_of_square_rewards - (...): whether it is negative and
        \* its absolute value
        minus == {<<x[1], BigLess(sumsq, x[2]),
                    Round53(IF BigLess(sumsq, x[2]) THEN BigSub(x[2], sumsq)
                            ELSE BigSub(sumsq, x[2]), FALSE)>> : x \in times}
        \* with (...) + d
        plus == {<<x[1], Round53(IF x[2] THEN BigSub(d, x[3]) ELSE BigAdd(d, x[3]),
                                 FALSE)>> : x \in minus}
        \* with (...) / child.count
        over == {<<x[1], BigDivSmall(x[2], n)>> : x \in plus}
        variance == {<<x[1], Round53(x[2][1], x[2][2] # 0)>> : x \in over}
        \* with math.sqrt(...), the root taken in units of 2^-54
        sqrt == {<<x[1], BigSqrt(BigShl(x[2], 46))>> : x \in variance}
        deviation == {<<x[1], Round53(BigShl(x[2][1], 8), x[2][2] # <<>>)>> : x \in sqrt}
        \* the mean + math.sqrt(c * math.log(...)), with the deviation
        first == {<<Round53(BigAdd(x[1], exploration), FALSE), x[2]>> : x \in deviation}
        \* (...) + math.sqrt(...)
        total == {Round53(BigAdd(x[1], x[2]), FALSE) : x \in first}
    IN  TheOne(total)

\* the keys of two children further apart than this many units of 10^-12 in
\* ucb_decimal are ordered as their doubles are
Margin == 8

\* key(a) <= key(b) for the keys single_player_ucb of two children a and b of
\* parent.  Equal statistics give equal doubles; values of ucb_decimal more
\* than Margin apart order the doubles, which are within 10^-14 of the real
\* values; else the doubles are computed and compared.
ucb_leq(ns, a, b, parent) ==
    LET near(gap) ==
            IF gap > Margin THEN TRUE
            ELSE IF gap < -Margin THEN FALSE
            ELSE ~BigLess(single_player_ucb(ns, b, parent),
                          single_player_ucb(ns, a, parent))
        order(da, db) ==
            IF da[1] + 1 < db[1] THEN TRUE
            ELSE IF db[1] + 1 < da[1] THEN FALSE
            ELSE near((db[1] - da[1]) * 1000000 + (db[2] - da[2]))
    IN  IF /\ ns[a].count = ns[b].count
           /\ ns[a].sum_rewards = ns[b].sum_rewards
           /\ ns[a].sum_of_square_rewards = ns[b].sum_of_square_rewards
        THEN TRUE
        ELSE order(ucb_decimal(ns, a, parent), ucb_decimal(ns, b, parent))

RECURSIVE FirstMaxUcbFrom(_, _, _, _, _)
\* max goes through seq once and keeps the first element of the greatest key:
\* best is the index kept among the elements before j
FirstMaxUcbFrom(ns, seq, parent, j, best) ==
    IF j > Len(seq) THEN best
    ELSE FirstMaxUcbFrom(ns, seq, parent, j + 1,
                         IF ucb_leq(ns, seq[j], seq[best], parent) THEN best ELSE j)

\* max(seq, key) with the values of single_player_ucb as keys: the index of the
\* first element of seq whose key is maximal
FirstMaxUcb(ns, seq, parent) == FirstMaxUcbFrom(ns, seq, parent, 2, 1)

\* max(seq, key): the index of the first element whose key is maximal
FirstMax(keys) ==
    CHOOSE k \in 1..Len(keys) :
        /\ \A j \in 1..Len(keys) : keys[j] <= keys[k]
        /\ \A j \in 1..(k - 1) : keys[j] < keys[k]

\* selection_policy that takes the last unvisited child instead of the first, and
\* the first unsolved child once all are visited
selection_policy_last_unvisited(ns, counter_node) ==
    LET ch == Children(counter_node)
        unvisited == {k \in 1..Len(ch) : ns[ch[k]].count = 0}
        unsolved_children == SelectSeq(ch, LAMBDA c : ~ns[c].solved)
    IN  IF ~ns[counter_node].expanded THEN NoNode
        ELSE IF unvisited # {}
        THEN ch[CHOOSE k \in unvisited : \A j \in unvisited : k >= j]
        ELSE IF unsolved_children = <<>> THEN NoNode
        ELSE unsolved_children[1]

\* MCTS.selection_policy: the child returned (NoNode when it raises)
selection_policy(ns, counter_node) ==
    LET ch == Children(counter_node)
        unvisited == {k \in 1..Len(ch) : ns[ch[k]].count = 0}
        unsolved_children == SelectSeq(ch, LAMBDA c : ~ns[c].solved)
    IN  IF ~ns[counter_node].expanded THEN NoNode
        ELSE IF unvisited # {}
        THEN ch[CHOOSE k \in unvisited : \A j \in unvisited : k <= j]
        ELSE IF unsolved_children = <<>> THEN NoNode
        ELSE IF \E k \in 1..Len(unsolved_children) :
                    ucb_raises(ns, unsolved_children[k], counter_node)
        THEN NoNode
        ELSE unsolved_children[FirstMaxUcb(ns, unsolved_children, counter_node)]

\* why selection_policy raises at counter_node, "" when it does not
selection_raises(ns, counter_node) ==
    LET ch == Children(counter_node)
        unsolved_children == SelectSeq(ch, LAMBDA c : ~ns[c].solved)
    IN  IF ~ns[counter_node].expanded THEN "AssertionError"
        ELSE IF \E k \in 1..Len(ch) : ns[ch[k]].count = 0 THEN ""
        ELSE IF unsolved_children = <<>> THEN "ValueError"
        ELSE IF \E k \in 1..Len(unsolved_children) :
                    ucb_raises(ns, unsolved_children[k], counter_node)
        THEN (LET first == CHOOSE k \in 1..Len(unsolved_children) :
                              /\ ucb_raises(ns, unsolved_children[k], counter_node)
                              /\ \A j \in 1..(k - 1) :
                                     ~ucb_raises(ns, unsolved_children[j], counter_node)
              IN  IF ns[unsolved_children[first]].count = 0
                  THEN "ZeroDivisionError" ELSE "ValueError")
        ELSE ""

\* the calls of single_player_ucb that selection_policy makes at counter_node,
\* each as <<child.count, parent.count>>: none when a child is unvisited, else
\* one for every unsolved child in the order of the children, up to the first
\* call that raises
ucb_arguments(ns, counter_node) ==
    LET unsolved_children == SelectSeq(Children(counter_node), LAMBDA c : ~ns[c].solved)
    IN  IF \/ ~ns[counter_node].expanded
           \/ \E c \in ChildSet(counter_node) : ns[c].count = 0
        THEN {}
        ELSE {<<ns[unsolved_children[k]].count, ns[counter_node].count>> :
                 k \in {m \in 1..Len(unsolved_children) :
                           \A j \in 1..(m - 1) :
                               ~ucb_raises(ns, unsolved_children[j], counter_node)}}

RECURSIVE descend_counts_twice(_, _, _)
\* the loop of selection_phase that counts each visit of a child twice
descend_counts_twice(ns, pk, node) ==
    IF ~ns[node].expanded
    THEN [nodes |-> ns, picks |-> pk, frontier |-> node, raised |-> ""]
    ELSE LET go(c) ==
                 IF c = NoNode
                 THEN [nodes |-> ns, picks |-> pk, frontier |-> NoNode,
                       raised |-> selection_raises(ns, node)]
                 ELSE descend_counts_twice([ns EXCEPT ![c].count = @ + 2],
                                           [pk EXCEPT ![node] = Append(@, c[2][Len(c[2])])],
                                           c)
         IN  go(selection_policy(ns, node))

RECURSIVE descend(_, _, _)
\* the loop of selection_phase from a node whose count is already incremented:
\* the nodes, the selection history, the frontier reached and the exception raised
descend(ns, pk, node) ==
    IF ~ns[node].expanded
    THEN [nodes |-> ns, picks |-> pk, frontier |-> node, raised |-> ""]
    ELSE LET go(c) ==
                 IF c = NoNode
                 THEN [nodes |-> ns, picks |-> pk, frontier |-> NoNode,
                       raised |-> selection_raises(ns, node)]
                 ELSE descend([ns EXCEPT ![c].count = @ + 1],
                              [pk EXCEPT ![node] = Append(@, c[2][Len(c[2])])],
                              c)
         IN  go(selection_policy(ns, node))

RECURSIVE ucb_calls(_, _)
\* the calls of single_player_ucb made by the loop of selection_phase from a node
\* whose count is already incremented, each as <<child.count, parent.count>>
ucb_calls(ns, node) ==
    IF ~ns[node].expanded THEN {}
    ELSE ucb_arguments(ns, node)
         \cup (LET go(c) == IF c = NoNode THEN {}
                              ELSE ucb_calls([ns EXCEPT ![c].count = @ + 1], c)
               IN  go(selection_policy(ns, node)))

\* selection_phase without the increment of the count of the root
selection_phase_root_uncounted(ns, pk, r) == descend(ns, pk, r)

\* MCTS.selection_phase
selection_phase(ns, pk, r) == descend([ns EXCEPT ![r].count = @ + 1], pk, r)

----------------------------------------------------------------------------
(* MCTS: search and single_search *)

RECURSIVE backpropagate_all(_, _, _)
\* for reward, leaf, frontier_counter_node in results: backpropagate
backpropagate_all(ns, results, k) ==
    IF k > Len(results) THEN ns
    ELSE backpropagate_all(
             backpropagate(ns, results[k][3], results[k][1], results[k][2]),
             results, k + 1)

\* the condition of the while loop without the test of the solved root
loop_condition_without_solved_test ==
    /\ ~g_is_terminal(counter_root[2])
    /\ still_has_ressources(rd)

\* the condition of the while loop without the test of the terminal root
loop_condition_without_terminal_test ==
    /\ ~nodes[counter_root].solved
    /\ still_has_ressources(rd)

\* the condition of the while loop of single_search
loop_condition ==
    /\ ~g_is_terminal(counter_root[2])
    /\ ~nodes[counter_root].solved
    /\ still_has_ressources(rd)

\* the choice of the new root that takes the last child of maximal top_reward
best_child_last_max(ns, r) ==
    Children(r)[CHOOSE k \in 1..Len(Children(r)) :
                   /\ \A j \in 1..Len(Children(r)) :
                          ns[Children(r)[j]].top_reward <= ns[Children(r)[k]].top_reward
                   /\ \A j \in (k + 1)..Len(Children(r)) :
                          ns[Children(r)[j]].top_reward < ns[Children(r)[k]].top_reward]

\* max(counter_root.children(), key=lambda child: child.top_reward)
best_child(ns, r) ==
    Children(r)[FirstMax([k \in 1..Len(Children(r)) |-> ns[Children(r)[k]].top_reward])]

WithPicks(pk, ns) == [x \in DOMAIN ns |-> IF x \in DOMAIN pk THEN pk[x] ELSE <<>>]

Trees == {TreeLeaf, TreePair, TreeSmall, TreeMix}
Strategies == {"", "ALL_FROM_ROOT", "UNIFORM", "LINEAR"}
ScoreTables == {ScoresA, ScoresB}
NoLog == [added |-> <<>>, backpropagated |-> <<>>]

\* the state once MCTS(lm_scorer, allocation_strategy, buffer_size,
\* nb_random_restarts) is constructed and the arguments of search are chosen
Constructed(tree, walks, depth, strategy, restarts, size, table) ==
    /\ root = tree
    /\ nb_of_tree_walks = walks
    /\ mean_depth = depth
    /\ allocation_strategy = strategy
    /\ nb_random_restarts = restarts
    /\ eb = NewEvalBuffer(size, table)
    /\ rd = <<>>
    /\ nodes = <<>>
    /\ counter_root = NoNode
    /\ current_depth = 0
    /\ i = 0
    /\ fault = ""
    /\ result = <<>>
    /\ picks = <<>>
    /\ log = NoLog
    /\ ops = <<>>
    /\ out = <<>>

Init ==
    /\ pc = "init"
    /\ \E tree \in Trees, walks \in 0..MaxWalks, depth \in 1..MaxMeanDepth,
          strategy \in Strategies, restarts \in 1..MaxRestarts,
          size \in 1..MaxCapacity, table \in ScoreTables :
          /\ strategy # "UNIFORM" => depth = 1
          /\ Constructed(tree, walks, depth, strategy, restarts, size, table)

\* search, lines 208-211
Search ==
    /\ pc = "init"
    /\ rd' = NewRessourceDistributor(allocation_strategy, mean_depth,
                                     nb_of_tree_walks \div nb_random_restarts)
    /\ i' = 0
    /\ pc' = "for"
    /\ UNCHANGED <<root, nb_of_tree_walks, mean_depth, allocation_strategy,
                   nb_random_restarts, eb, nodes, counter_root, current_depth,
                   fault, result, picks, log, ops, out>>

\* search, lines 213-215, and single_search, lines 221-223
NextRestart ==
    /\ pc = "for"
    /\ i < nb_random_restarts
    /\ rd' = reset(rd)
    /\ \E ns \in {[x \in DOMAIN nodes \cup {<<i + 1, <<>>>>} |->
                      IF x = <<i + 1, <<>>>> THEN NewCounterNode ELSE nodes[x]]} :
           /\ nodes' = ns
           /\ picks' = WithPicks(picks, ns)
           /\ counter_root' = <<i + 1, <<>>>>
    /\ current_depth' = 1
    /\ pc' = "while"
    /\ UNCHANGED <<root, nb_of_tree_walks, mean_depth, allocation_strategy,
                   nb_random_restarts, eb, i, fault, result, log, ops, out>>

\* one iteration of the while loop up to the backpropagation, lines 230-257
Walk ==
    /\ pc = "while"
    /\ loop_condition
    /\ rd' = consume_one_unit(rd)
    /\ \E sel \in {selection_phase(nodes, picks, counter_root)} :
           IF sel.raised # ""
           THEN /\ nodes' = sel.nodes
                /\ picks' = sel.picks
                /\ fault' = sel.raised
                /\ pc' = "fault"
                /\ UNCHANGED <<eb, log>>
           ELSE \E random_leaf \in LeavesUnder(sel.frontier[2]) :
                \E grown \in {IF g_is_terminal(sel.frontier[2])
                              THEN set_as_solved(sel.nodes, sel.frontier)
                              ELSE expand(sel.nodes, sel.frontier)} :
                \E popped \in {pop_results(add(eb, sel.frontier, random_leaf))} :
                    /\ nodes' = backpropagate_all(grown, popped.output, 1)
                    /\ picks' = WithPicks(sel.picks, grown)
                    /\ eb' = popped.buffer
                    /\ log' = [added |-> Append(log.added, <<random_leaf, sel.frontier>>),
                               backpropagated |-> log.backpropagated \o popped.output]
                    /\ pc' = "check"
                    /\ UNCHANGED fault
    /\ UNCHANGED <<root, nb_of_tree_walks, mean_depth, allocation_strategy,
                   nb_random_restarts, counter_root, current_depth, i, result, ops, out>>

\* the end of the iteration: the query to the ressource distributor and the
\* move to the best child, lines 261-273
GoDown ==
    /\ pc = "check"
    /\ IF should_go_down_raises(rd)
       THEN /\ fault' = "AttributeError"
            /\ pc' = "fault"
            /\ UNCHANGED <<eb, nodes, counter_root, current_depth, rd, log>>
       ELSE IF ~should_go_down_into_the_tree(rd)
       THEN /\ pc' = "while"
            /\ UNCHANGED <<eb, nodes, counter_root, current_depth, rd, log, fault>>
       ELSE \E popped \in {pop_results(force_eval(eb))} :
            \E frozen \in {[backpropagate_all(nodes, popped.output, 1)
                               EXCEPT ![counter_root].freeze = TRUE]} :
                /\ eb' = popped.buffer
                /\ log' = [log EXCEPT !.backpropagated = @ \o popped.output]
                /\ nodes' = frozen
                /\ IF ~frozen[counter_root].expanded
                   THEN /\ fault' = "AssertionError"
                        /\ pc' = "fault"
                        /\ UNCHANGED <<counter_root, current_depth, rd>>
                   ELSE /\ counter_root' = best_child(frozen, counter_root)
                        /\ current_depth' = current_depth + 1
                        /\ rd' = set_new_position(rd, current_depth + 1)
                        /\ pc' = "while"
                        /\ UNCHANGED fault
    /\ UNCHANGED <<root, nb_of_tree_walks, mean_depth, allocation_strategy,
                   nb_random_restarts, i, result, picks, ops, out>>

\* the while loop ends: the last force_eval and the return, lines 275-276
ExitLoop ==
    /\ pc = "while"
    /\ ~loop_condition
    /\ eb' = force_eval(eb)
    /\ i' = i + 1
    /\ pc' = "for"
    /\ UNCHANGED <<root, nb_of_tree_walks, mean_depth, allocation_strategy,
                   nb_random_restarts, rd, nodes, counter_root, current_depth,
                   fault, result, picks, log, ops, out>>

\* search returns, line 218
Return ==
    /\ pc = "for"
    /\ i = nb_random_restarts
    /\ result' = <<eb.best_sentence, eb.best_score, <<nb_random_restarts, <<>>>>>>
    /\ pc' = "done"
    /\ UNCHANGED <<root, nb_of_tree_walks, mean_depth, allocation_strategy,
                   nb_random_restarts, eb, rd, nodes, counter_root, current_depth,
                   i, fault, picks, log, ops, out>>

Next == Search \/ NextRestart \/ Walk \/ GoDown \/ ExitLoop \/ Return

Spec == Init /\ [][Next]_vars

----------------------------------------------------------------------------
(* Scenario A: ALL_FROM_ROOT, buffer size 1, 1 restart, a budget of at      *)
(* least the number of nodes of the tree, distinct scores, no dead end     *)

InitA ==
    /\ pc = "init"
    /\ \E tree \in {TreeBin2, TreeBin3}, table \in {ScoresA, ScoresC, ScoresD, ScoresE} :
       \E walks \in TreeSize(tree)..(TreeSize(tree) + ExtraWalks) :
          Constructed(tree, walks, 1, "ALL_FROM_ROOT", 1, 1, table)

SpecA == InitA /\ [][Next]_vars

----------------------------------------------------------------------------
(* Scenario B and its like: a named strategy, on trees that the budget may  *)
(* or may not suffice to explore: any budget up to MaxWalks on the small   *)
(* trees, up to the 4 walks of the scenario on the 8-leaf tree.  search is *)
(* one sequential call: a step that is enabled is eventually taken.        *)

InitB ==
    /\ pc = "init"
    /\ \E tree \in {TreePair, TreeSmall, TreeBin3}, walks \in 0..MaxWalks,
          depth \in 1..MaxMeanDepth, strategy \in {"ALL_FROM_ROOT", "UNIFORM"},
          restarts \in 1..MaxRestarts, size \in 1..MaxCapacity, table \in {ScoresA} :
          /\ strategy # "UNIFORM" => depth = 1
          /\ tree = TreeBin3 => walks <= 4
          /\ Constructed(tree, walks, depth, strategy, restarts, size, table)

\* the control of Walk: the loop condition holds and the body is entered; the
\* body then reaches line 259 or raises.  Every step of Walk is a step of
\* WalkControl, and Walk is enabled whenever WalkControl is: selection_phase
\* returns a frontier or raises, and every GrammarNode has a leaf below it.
WalkControl == pc = "while" /\ loop_condition /\ pc' \in {"check", "fault"}

SpecB ==
    /\ InitB
    /\ [][Next]_vars
    /\ WF_vars(Search \/ NextRestart \/ GoDown \/ ExitLoop \/ Return)
    /\ WF_pc(WalkControl)

----------------------------------------------------------------------------
(* The EvalBuffer driven directly by a client: any sequence of at most      *)
(* MaxOps calls of add, force_eval and pop_results                         *)

\* the frontier nodes a client hands in with a leaf
Owners(leaf) == {<<1, <<>>>>, <<1, leaf>>}

InitBuffer ==
    /\ pc = "client"
    /\ \E size \in 1..MaxBatch, table \in {ScoresA} :
          Constructed(TreeSmall, 0, 1, "", 1, size, table)

ClientAdd ==
    /\ pc = "client"
    /\ Len(ops) < MaxOps
    /\ \E leaf \in LeavesUnder(<<>>) : \E owner \in Owners(leaf) :
          /\ eb' = add(eb, owner, leaf)
          /\ ops' = Append(ops, <<"add", leaf, owner>>)
    /\ UNCHANGED <<root, nb_of_tree_walks, mean_depth, allocation_strategy,
                   nb_random_restarts, rd, nodes, counter_root, current_depth,
                   i, pc, fault, result, picks, log, out>>

ClientForceEval ==
    /\ pc = "client"
    /\ Len(ops) < MaxOps
    /\ eb' = force_eval(eb)
    /\ ops' = Append(ops, <<"force_eval">>)
    /\ UNCHANGED <<root, nb_of_tree_walks, mean_depth, allocation_strategy,
                   nb_random_restarts, rd, nodes, counter_root, current_depth,
                   i, pc, fault, result, picks, log, out>>

ClientPopResults ==
    /\ pc = "client"
    /\ Len(ops) < MaxOps
    /\ eb' = pop_results(eb).buffer
    /\ out' = Append(out, pop_results(eb).output)
    /\ ops' = Append(ops, <<"pop_results">>)
    /\ UNCHANGED <<root, nb_of_tree_walks, mean_depth, allocation_strategy,
                   nb_random_restarts, rd, nodes, counter_root, current_depth,
                   i, pc, fault, result, picks, log>>

NextBuffer == ClientAdd \/ ClientForceEval \/ ClientPopResults

SpecBuffer == InitBuffer /\ [][NextBuffer]_vars

----------------------------------------------------------------------------
(* Claims *)

AllLeaves == LeavesUnder(<<>>)
ScoreOf(leaf) == eb.lm_scorer.table[Str(leaf)]

\* the preconditions of scenario A hold of the call
ScenarioA ==
    /\ allocation_strategy = "ALL_FROM_ROOT"
    /\ eb.buffer_size = 1
    /\ nb_random_restarts = 1
    /\ nb_of_tree_walks >= TreeSize(root)
    /\ \A l \in AllLeaves : ~g_is_dead_end(l) /\ ScoreOf(l) > -1
    /\ \A l, m \in AllLeaves : l # m => ScoreOf(l) # ScoreOf(m)

\* C1: under ALL_FROM_ROOT with buffer size 1 and 1 restart, on a tree without
\* dead ends whose leaves have distinct scores above -1, with a budget of at
\* least the number of nodes, search returns the text and the score of the
\* leaf of maximal score, whatever random_child drew.
C1_ReturnsGlobalMaximum ==
    (pc = "done" /\ ScenarioA) =>
        \E best \in AllLeaves :
            /\ \A l \in AllLeaves : ScoreOf(l) <= ScoreOf(best)
            /\ <<result[1], result[2]>> = <<Str(best), ScoreOf(best)>>

\* scenario A on the 8-leaf tree has returned, and the first simulation did not
\* already draw the best leaf
C1_Witness ==
    /\ pc = "done"
    /\ ScenarioA
    /\ root = TreeBin3
    /\ Len(eb.score_history) >= 8
    /\ \E l \in AllLeaves : ScoreOf(l) > eb.score_history[1]
    /\ result[2] = 8

\* CounterNodes: the proper ancestors of a node, the nodes of the chain of parents
Ancestors(id) == {<<id[1], SubSeq(id[2], 1, n)>> : n \in 0..(Len(id[2]) - 1)}
\* single_search has returned at least once and no iteration is under way
RunEnded == pc \in {"for", "done"} /\ i >= 1
\* how many entries of a sequence satisfy a test
Count(seq, Test(_)) == Cardinality({k \in 1..Len(seq) : Test(seq[k])})

\* C2: when single_search returns, the buffer and the results of the EvalBuffer
\* are both empty and every leaf simulated in that run has been backpropagated
\* exactly once from its frontier node.
C2_DrainedAtReturn ==
    (pc = "for" /\ i >= 1) =>
        /\ eb.buffer = <<>>
        /\ eb.results = <<>>
        /\ \A k \in 1..Len(log.added) :
              log.added[k][2][1] = i =>
                  Count(log.backpropagated,
                        LAMBDA e : <<e[2], e[3]>> = log.added[k])
                    = Count(log.added, LAMBDA a : a = log.added[k])

\* C3 as stated: counts are never negative and a parent's count is at least the
\* count of each of its children, also after root advancements.
C3_ParentAtLeastChild ==
    \A id \in DOMAIN nodes :
        /\ nodes[id].count >= 0
        /\ nodes[id].expanded =>
              \A c \in ChildSet(id) : nodes[id].count >= nodes[c].count

CountsOrdered(ns) ==
    \A id \in DOMAIN ns :
        /\ ns[id].count >= 0
        /\ (ns[id].expanded /\ ~ns[id].freeze) =>
              \A c \in ChildSet(id) : ns[id].count >= ns[c].count

\* C3, amended: counts are never negative, never decrease from one step to the
\* next, and every expanded node that is not frozen has a count at least the
\* count of each of its children.
C3_CountsMonotoneAndOrdered ==
    /\ CountsOrdered(nodes)
    /\ [][/\ CountsOrdered(nodes')
          /\ \A id \in DOMAIN nodes :
                id \in DOMAIN nodes' /\ nodes'[id].count >= nodes[id].count]_vars

\* the root has advanced and selection has gone on below the new root
C3_Witness ==
    /\ pc = "check"
    /\ HasParent(counter_root)
    /\ nodes[Parent(counter_root)].freeze
    /\ nodes[counter_root].expanded
    /\ \E c \in ChildSet(counter_root) : nodes[c].count >= 1

\* C4 as stated: after a run, a node is solved iff its GrammarNode is terminal
\* or it has children and all of them are solved.
C4_SolvedIff ==
    RunEnded =>
        \A id \in DOMAIN nodes :
            nodes[id].solved <=>
                \/ g_is_terminal(id[2])
                \/ nodes[id].expanded /\ \A c \in ChildSet(id) : nodes[c].solved

\* C4, amended: after a run, a solved node wraps a terminal GrammarNode or has
\* children that are all solved; a node wrapping a terminal GrammarNode is
\* solved iff it has been visited; a node that is not frozen and has children
\* that are all solved is solved.
C4_SolvedLazily ==
    RunEnded =>
        \A id \in DOMAIN nodes :
            /\ nodes[id].solved =>
                  \/ g_is_terminal(id[2])
                  \/ nodes[id].expanded /\ \A c \in ChildSet(id) : nodes[c].solved
            /\ g_is_terminal(id[2]) => (nodes[id].solved <=> nodes[id].count >= 1)
            /\ (nodes[id].expanded /\ ~nodes[id].freeze
                  /\ \A c \in ChildSet(id) : nodes[c].solved) => nodes[id].solved

\* a run has ended with a node solved through its children and a terminal node
\* never visited
C4_Witness ==
    /\ RunEnded
    /\ \E id \in DOMAIN nodes : nodes[id].expanded /\ nodes[id].solved
    /\ \E id \in DOMAIN nodes : g_is_terminal(id[2]) /\ nodes[id].count = 0

\* C5: once a node is frozen, no later step changes its count, its sums, its
\* top reward or its top leaf, nor anything of its ancestors.
C5_FrozenIsBoundary ==
    [][\A id \in DOMAIN nodes :
          nodes[id].freeze =>
              /\ id \in DOMAIN nodes'
              /\ nodes'[id].freeze
              /\ nodes'[id].count = nodes[id].count
              /\ nodes'[id].sum_rewards = nodes[id].sum_rewards
              /\ nodes'[id].sum_of_square_rewards = nodes[id].sum_of_square_rewards
              /\ nodes'[id].top_reward = nodes[id].top_reward
              /\ nodes'[id].top_leaf_node = nodes[id].top_leaf_node
              /\ \A a \in Ancestors(id) : nodes'[a] = nodes[a]]_vars

\* a reward has been backpropagated below a frozen node after it was frozen: one
\* of its children has seen a better reward than the frozen node itself
C5_Witness ==
    \E id \in DOMAIN nodes :
        /\ nodes[id].freeze
        /\ \E c \in ChildSet(id) : nodes[c].top_reward > nodes[id].top_reward

\* what force_eval must do to a buffer b: one call of the scorer with the texts in
\* order, one result per entry in the same order, an empty buffer
Flushed(b, after) ==
    LET n == Len(b.buffer)
        texts == [k \in 1..n |-> Str(b.buffer[k][1])]
    IN  /\ after.lm_scorer.calls = Append(b.lm_scorer.calls, texts)
        /\ Len(after.results) = Len(b.results) + n
        /\ SubSeq(after.results, 1, Len(b.results)) = b.results
        /\ \A k \in 1..n :
              after.results[Len(b.results) + k] =
                  <<b.lm_scorer.table[texts[k]], b.buffer[k][1], b.buffer[k][2]>>
        /\ after.buffer = <<>>

LastOp == ops'[Len(ops')]
Called(name) == ops' # ops /\ LastOp[1] = name

\* C6: force_eval on N >= 1 entries calls the scorer once with the N texts in
\* order, appends the N results in the same order, each with its own leaf and
\* owner, and empties the buffer (also when add triggers it on a full buffer);
\* on an empty buffer it calls nothing and changes nothing.
C6_ForceEvalPairsInOrder ==
    [][/\ Called("force_eval") =>
             IF Len(eb.buffer) = 0 THEN eb' = eb ELSE Flushed(eb, eb')
       /\ (/\ Called("add")
           /\ ~g_is_dead_end(LastOp[2])
           /\ Len(eb.buffer) + 1 = eb.buffer_size) =>
             Flushed([eb EXCEPT !.buffer = Append(@, <<LastOp[2], LastOp[3]>>)], eb')]_vars

\* a direct force_eval has just scored two different texts in one call
C6_Witness ==
    /\ ops # <<>>
    /\ ops[Len(ops)] = <<"force_eval">>
    /\ eb.lm_scorer.calls # <<>>
    /\ LET last == eb.lm_scorer.calls[Len(eb.lm_scorer.calls)]
       IN  Len(last) = 2 /\ last[1] # last[2]
    /\ Len(eb.results) >= 2

DeadEndTexts == {Str(l) : l \in {m \in AllLeaves : g_is_dead_end(m)}}
NoDeadEndScored ==
    \A k \in 1..Len(eb.lm_scorer.calls) :
        \A j \in 1..Len(eb.lm_scorer.calls[k]) :
            eb.lm_scorer.calls[k][j] \notin DeadEndTexts

\* C7: add of a dead-end leaf appends exactly (0, leaf, owner) to the results,
\* leaves the buffer alone and calls no scorer; no scorer call ever holds the
\* text of a dead-end leaf.
C7_DeadEndNeverScored ==
    /\ NoDeadEndScored
    /\ [][/\ NoDeadEndScored'
          /\ (Called("add") /\ g_is_dead_end(LastOp[2])) =>
                /\ eb'.results = Append(eb.results, <<0, LastOp[2], LastOp[3]>>)
                /\ eb'.buffer = eb.buffer
                /\ eb'.lm_scorer = eb.lm_scorer]_vars

\* a dead-end leaf was added while another leaf was waiting, and the scorer has
\* been called since
C7_Witness ==
    /\ \E k \in 2..Len(ops) :
          /\ ops[k][1] = "add" /\ g_is_dead_end(ops[k][2])
          /\ ops[k - 1][1] = "add" /\ ~g_is_dead_end(ops[k - 1][2])
    /\ eb.lm_scorer.calls # <<>>
    /\ eb.buffer = <<>>

RECURSIVE TotalLen(_, _)
TotalLen(seqs, k) == IF k > Len(seqs) THEN 0 ELSE Len(seqs[k]) + TotalLen(seqs, k + 1)

\* every leaf added is in the buffer, in the results, or was returned by exactly
\* one pop_results
EachResultOnce(o, b, calls) ==
    TotalLen(o, 1) + Len(b.results) + Len(b.buffer)
        = Cardinality({k \in 1..Len(calls) : calls[k][1] = "add"})

\* C8: pop_results returns the results in order and leaves them empty; a second
\* pop_results with no add or force_eval in between returns the empty sequence;
\* no result is returned by two pop_results calls.
C8_PopResultsDrains ==
    /\ EachResultOnce(out, eb, ops)
    /\ [][/\ EachResultOnce(out', eb', ops')
          /\ Called("pop_results") =>
                /\ out' = Append(out, eb.results)
                /\ eb' = [eb EXCEPT !.results = <<>>]
                /\ (ops # <<>> /\ ops[Len(ops)][1] = "pop_results") =>
                      out'[Len(out')] = <<>>]_vars

\* two pop_results in a row, the first of which returned two results
C8_Witness ==
    /\ Len(ops) >= 2
    /\ ops[Len(ops)][1] = "pop_results"
    /\ ops[Len(ops) - 1][1] = "pop_results"
    /\ Len(out[Len(out) - 1]) >= 2
    /\ out[Len(out)] = <<>>

\* C9: the first k selections made from a node with k children are its
\* children in child order, whatever rewards were backpropagated meanwhile.
C9_UnvisitedChildrenFirst ==
    \A id \in DOMAIN picks :
        \A k \in 1..Len(picks[id]) :
            k <= Len(Children(id)) => picks[id][k] = k

\* a node with 3 children has been selected from at least 3 times, its first two
\* children holding different rewards
C9_Witness ==
    \E id \in DOMAIN picks :
        /\ Len(Children(id)) = 3
        /\ Len(picks[id]) >= 3
        /\ nodes[Children(id)[1]].sum_rewards # nodes[Children(id)[2]].sum_rewards
        /\ eb.buffer_size = 2

\* C10: under ALL_FROM_ROOT should_go_down_into_the_tree is false in every state
\* of the budget, the root of the search stays the initial root, no node is
\* frozen and the depth stays 1.
C10_NeverGoesDown ==
    (pc \in {"while", "check", "for", "done"} /\ rd.strategy = "ALL_FROM_ROOT") =>
        /\ ~should_go_down_into_the_tree(rd)
        /\ \A id \in DOMAIN nodes : ~nodes[id].freeze
        /\ rd.current_depth = 1
        /\ pc \in {"while", "check"} =>
              /\ counter_root = <<i + 1, <<>>>>
              /\ current_depth = 1

\* the whole budget has been consumed at the first depth and the loop goes on from
\* the same root
C10_Witness ==
    /\ pc = "while"
    /\ rd.strategy = "ALL_FROM_ROOT"
    /\ rd.ressources_to_consume >= 3
    /\ rd.ressources_already_consumed_at_current_depth >= rd.ressources_to_consume
    /\ counter_root = <<i + 1, <<>>>>

\* the quota of the current depth is reached: consumed_at_depth >= per_depth_quota
QuotaReached(d) ==
    d.ressources_already_consumed_at_current_depth * d.quota_den >= d.quota_num

\* the step moves the root of the search to one of its children
Advances == counter_root' # counter_root /\ counter_root' \in ChildSet(counter_root)

\* C11: under UNIFORM, at the end of each iteration the root advances iff the
\* consumption at the current depth has reached the quota; the advancement
\* resets the consumption at the current depth to 0, raises the depth by exactly
\* 1 and leaves the total consumption alone.
C11_AdvancesExactlyOnQuota ==
    [][(pc = "check" /\ rd.strategy = "UNIFORM") =>
          /\ Advances <=> QuotaReached(rd)
          /\ ~Advances => (counter_root' = counter_root /\ rd' = rd
                             /\ current_depth' = current_depth)
          /\ Advances =>
                /\ rd'.ressources_already_consumed_at_current_depth = 0
                /\ current_depth' = current_depth + 1
                /\ rd'.current_depth = rd.current_depth + 1
                /\ rd'.ressources_already_consumed = rd.ressources_already_consumed
                /\ rd'.ressources_to_consume = rd.ressources_to_consume]_vars

\* the root has advanced twice under UNIFORM, after iterations that did not
\* advance it
C11_Witness ==
    /\ pc = "while"
    /\ rd.strategy = "UNIFORM"
    /\ current_depth = 3
    /\ rd.current_depth = 3
    /\ rd.ressources_already_consumed_at_current_depth = 0
    /\ rd.ressources_already_consumed >= 4

\* the greatest score of a leaf of the tree that is not a dead end
TrueMaximum ==
    CHOOSE m \in {ScoreOf(l) : l \in {x \in AllLeaves : ~g_is_dead_end(x)}} :
        \A l \in {x \in AllLeaves : ~g_is_dead_end(x)} : ScoreOf(l) <= m

\* C12: under either named strategy, whatever the budget and the buffer size,
\* search returns without fault; each run makes at most
\* nb_of_tree_walks // nb_random_restarts iterations (the consumption never
\* exceeds the budget of the run), and the score returned is at most the greatest
\* score of a leaf of the tree.
C12_TerminatesWithinBudget ==
    /\ [](/\ fault = "" /\ pc # "fault"
          /\ pc \in {"for", "while", "check", "done"} =>
                /\ rd.ressources_to_consume = nb_of_tree_walks \div nb_random_restarts
                /\ rd.ressources_already_consumed <= rd.ressources_to_consume
          /\ pc = "done" => result[2] <= TrueMaximum)
    /\ <>(pc = "done")

\* scenario B has returned: 4 walks on the 8-leaf tree, the budget is used up, the
\* root is not solved and the score returned is below the maximum
C12_Witness ==
    /\ pc = "done"
    /\ root = TreeBin3
    /\ nb_of_tree_walks = 4
    /\ nb_random_restarts = 1
    /\ rd.ressources_already_consumed = 4
    /\ ~nodes[<<1, <<>>>>].solved
    /\ result[2] >= 0
    /\ result[2] < TrueMaximum

\* C13: when the root of the domain tree is terminal the loop body never runs:
\* no unit is consumed, no CounterNode is visited, expanded or solved, nothing
\* is handed to the EvalBuffer, the scorer is never called, nothing raises, and
\* search returns the initial best sentence "" with the initial best score -1.
C13_TerminalRootIsNoOp ==
    g_is_terminal(<<>>) =>
        /\ pc \in {"init", "for", "while", "done"}
        /\ fault = ""
        /\ eb = NewEvalBuffer(eb.buffer_size, eb.lm_scorer.table)
        /\ eb.lm_scorer.calls = <<>>
        /\ log = NoLog
        /\ \A id \in DOMAIN nodes : nodes[id] = NewCounterNode
        /\ pc # "init" =>
              /\ rd.ressources_already_consumed = 0
              /\ rd.ressources_already_consumed_at_current_depth = 0
              /\ rd.current_depth = 1
        /\ pc = "done" => <<result[1], result[2]>> = <<"", -1>>

\* search has returned from two restarts over a terminal root with a budget that
\* would have allowed iterations
C13_Witness ==
    /\ pc = "done"
    /\ g_is_terminal(<<>>)
    /\ nb_random_restarts = 2
    /\ rd.ressources_to_consume >= 2
    /\ DOMAIN nodes = {<<1, <<>>>>, <<2, <<>>>>}
    /\ <<result[1], result[2]>> = <<"", -1>>

RECURSIVE Flatten(_, _)
\* the concatenation of the sequences of a sequence, from position k on
Flatten(seqs, k) == IF k > Len(seqs) THEN <<>> ELSE seqs[k] \o Flatten(seqs, k + 1)

\* the best sentence and the best score that a history of scores of the given
\* texts accounts for: the first text whose score is the maximum
BestOf(texts, history) ==
    IF history = <<>> THEN <<"", -1>>
    ELSE LET k == FirstMax(history) IN <<texts[k], history[k]>>

BestTracksHistory(b) ==
    /\ Len(Flatten(b.lm_scorer.calls, 1)) = Len(b.score_history)
    /\ <<b.best_sentence, b.best_score>> = BestOf(Flatten(b.lm_scorer.calls, 1), b.score_history)

\* C14: the best of the EvalBuffer is accumulated over the restarts of a search
\* and never reset: the score history only grows, best_score never decreases, in
\* every state it is the maximum of score_history (-1 when the history is
\* empty) and best_sentence is the text of the first leaf that reached it, and
\* the text and the score that search returns are that pair, the best over all
\* restarts.
C14_BestAccumulatesAcrossRestarts ==
    /\ [](/\ BestTracksHistory(eb)
          /\ pc = "done" =>
                <<result[1], result[2]>>
                    = BestOf(Flatten(eb.lm_scorer.calls, 1), eb.score_history))
    /\ [][/\ eb'.best_score >= eb.best_score
          /\ Len(eb'.score_history) >= Len(eb.score_history)
          /\ SubSeq(eb'.score_history, 1, Len(eb.score_history)) = eb.score_history]_vars

\* search has returned after two restarts; the best score was seen in the first
\* one and everything the second one saw is lower
C14_Witness ==
    /\ pc = "done"
    /\ nb_random_restarts = 2
    /\ eb.buffer_size = 1
    /\ Len(eb.score_history) = 4
    /\ eb.score_history[1] = result[2]
    /\ nodes[<<2, <<>>>>].count = 2
    /\ nodes[<<2, <<>>>>].top_reward >= 0
    /\ nodes[<<2, <<>>>>].top_reward < result[2]

\* the budget of a run truncates to zero
Degenerate == nb_of_tree_walks \div nb_random_restarts = 0

\* C15: with nb_of_tree_walks = 0, or more restarts than walks, search fails
\* with a configuration error: it starts no run and never returns a result.
C15_DegenerateFailsFast ==
    Degenerate => (pc \notin {"while", "done"} /\ (pc = "for" => fault # ""))

\* CounterNode id is r or a descendant of r in the tree of the same run
Under(id, r) ==
    /\ id[1] = r[1]
    /\ Len(id[2]) >= Len(r[2])
    /\ SubSeq(id[2], 1, Len(r[2])) = r[2]

RECURSIVE SumRewards(_, _, _)
\* the sum of the rewards of the entries <<reward, leaf, frontier>> of a
\* sequence whose frontier is under r, from position k on
SumRewards(entries, r, k) ==
    IF k > Len(entries) THEN 0
    ELSE (IF Under(entries[k][3], r) THEN entries[k][1] ELSE 0)
         + SumRewards(entries, r, k + 1)

\* the greatest reward of the entries whose frontier is under r, -1 if none
TopReward(entries, r) ==
    LET rs == {entries[k][1] : k \in {j \in 1..Len(entries) : Under(entries[j][3], r)}}
    IN  IF rs = {} THEN -1 ELSE CHOOSE m \in rs : \A x \in rs : x <= m

\* C16: at every root advancement the buffer is flushed and every result is
\* backpropagated before the old root is frozen, so that the statistics of the
\* old root and of its children account for every leaf simulated below them so
\* far; the old root is then frozen and the new root is the first child, in
\* child order, whose top_reward is maximal among the children of the old root.
C16_FlushThenFreezeThenChoose ==
    [][(pc = "check" /\ Advances) =>
          /\ eb'.buffer = <<>>
          /\ eb'.results = <<>>
          /\ \A k \in 1..Len(log'.added) :
                Count(log'.backpropagated, LAMBDA e : <<e[2], e[3]>> = log'.added[k])
                    = Count(log'.added, LAMBDA a : a = log'.added[k])
          /\ ~nodes[counter_root].freeze
          /\ nodes'[counter_root].freeze
          /\ nodes'[counter_root].sum_rewards
                = SumRewards(log'.backpropagated, counter_root, 1)
          /\ nodes'[counter_root].top_reward = TopReward(log'.backpropagated, counter_root)
          /\ \A c \in ChildSet(counter_root) :
                nodes'[c].top_reward = TopReward(log'.backpropagated, c)
          /\ \E k \in 1..Len(Children(counter_root)) :
                /\ counter_root' = Children(counter_root)[k]
                /\ \A j \in 1..Len(Children(counter_root)) :
                      nodes'[Children(counter_root)[j]].top_reward
                          <= nodes'[counter_root'].top_reward
                /\ \A j \in 1..(k - 1) :
                      nodes'[Children(counter_root)[j]].top_reward
                          < nodes'[counter_root'].top_reward]_vars

\* the root has just advanced to its second child, which holds a reward that was
\* still waiting in the buffer when the quota was reached
C16_Witness ==
    /\ pc = "while"
    /\ eb.buffer_size = 2
    /\ HasParent(counter_root)
    /\ nodes[Parent(counter_root)].freeze
    /\ rd.ressources_already_consumed_at_current_depth = 0
    /\ rd.ressources_already_consumed = 3
    /\ counter_root = Children(Parent(counter_root))[2]
    /\ nodes[counter_root].top_reward > nodes[Children(Parent(counter_root))[1]].top_reward
    /\ nodes[Children(Parent(counter_root))[1]].top_reward >= 0

\* the calls of single_player_ucb that the iteration about to start makes
NextUcbCalls == ucb_calls([nodes EXCEPT ![counter_root].count = @ + 1], counter_root)

\* C17: whenever single_player_ucb is evaluated for a child c of a parent p,
\* count(c) >= 1 and count(p) >= count(c): the division and the square root of
\* the logarithm never raise.
C17_UcbArgumentsDefined ==
    /\ fault \notin {"ZeroDivisionError", "ValueError"}
    /\ (pc = "while" /\ loop_condition) =>
          \A e \in NextUcbCalls : e[1] >= 1 /\ e[2] >= e[1]

\* an iteration is about to evaluate the formula for a child visited twice or
\* more and less often than its parent
C17_Witness ==
    /\ pc = "while"
    /\ loop_condition
    /\ \E e \in NextUcbCalls : e[1] >= 2 /\ e[2] > e[1]

\* C18: with a non-empty strategy that is neither ALL_FROM_ROOT nor UNIFORM the
\* RessourceDistributor is constructed and behaves as depth-uniform:
\* should_go_down_into_the_tree compares the consumption at the current depth
\* with a quota and never raises, so no run ends on an exception.
C18_UnknownStrategyFallsBack ==
    (pc # "init" /\ rd.strategy \notin {"ALL_FROM_ROOT", "UNIFORM"}) =>
        /\ fault = ""
        /\ pc # "fault"
        /\ pc = "check" => ~should_go_down_raises(rd)

\* the strategy is one of the two named ones ("" stands for ALL_FROM_ROOT)
NamedStrategy == allocation_strategy \in {"", "ALL_FROM_ROOT", "UNIFORM"}

\* what the selection of the iteration about to start does
NextSelection == selection_phase(nodes, picks, counter_root)

\* C19: under either named strategy no run reaches a logic fault: no exception
\* is raised; the frontier that selection returns exists and is not expanded
\* yet, so expand is only called on an unexpanded node, and only when its
\* GrammarNode is not terminal; every expanded node wraps a non-terminal
\* GrammarNode and has its children; selection finds an unsolved child
\* whenever it reaches the UCB case; and the root is expanded whenever its
\* children are read to choose the new root.
C19_NoLogicFault ==
    (pc # "init" /\ NamedStrategy) =>
        /\ fault = ""
        /\ pc # "fault"
        /\ \A id \in DOMAIN nodes :
              nodes[id].expanded =>
                  /\ ~g_is_terminal(id[2])
                  /\ ChildSet(id) # {}
                  /\ ChildSet(id) \subseteq DOMAIN nodes
        /\ (pc = "while" /\ loop_condition) =>
              /\ NextSelection.raised = ""
              /\ NextSelection.frontier \in DOMAIN nodes
              /\ ~nodes[NextSelection.frontier].expanded
              /\ \A id \in DOMAIN nodes :
                    (/\ NextSelection.nodes[id].count > nodes[id].count
                     /\ id # NextSelection.frontier) =>
                        /\ nodes[id].expanded
                        /\ \/ \E c \in ChildSet(id) : nodes[c].count = 0
                           \/ \E c \in ChildSet(id) : ~nodes[c].solved
        /\ (pc = "check" /\ should_go_down_into_the_tree(rd)) =>
              nodes[counter_root].expanded

\* selection is about to reach the UCB case at a root one child of which is
\* solved and another is not
C19_Witness ==
    /\ pc = "while"
    /\ loop_condition
    /\ NamedStrategy
    /\ nodes[counter_root].expanded
    /\ \A c \in ChildSet(counter_root) : nodes[c].count >= 1
    /\ \E c \in ChildSet(counter_root) : nodes[c].solved
    /\ \E c \in ChildSet(counter_root) : ~nodes[c].solved
    /\ NextSelection.raised = ""

RECURSIVE SumCounts(_, _, _)
\* the sum of the counts of the CounterNodes of a sequence, from position k on
SumCounts(ns, ids, k) ==
    IF k > Len(ids) THEN 0 ELSE ns[ids[k]].count + SumCounts(ns, ids, k + 1)

\* C20: at the end of every iteration (and in every other state) every expanded
\* node that is not frozen has a count of 1 plus the sum of the counts of its
\* children, and every node solved as a terminal frontier keeps a count of
\* exactly 1.
C20_CountIsOnePlusChildren ==
    \A id \in DOMAIN nodes :
        /\ (nodes[id].expanded /\ ~nodes[id].freeze) =>
              nodes[id].count = 1 + SumCounts(nodes, Children(id), 1)
        /\ (g_is_terminal(id[2]) /\ nodes[id].solved) => nodes[id].count = 1
        /\ g_is_terminal(id[2]) => nodes[id].count <= 1

\* an iteration has just ended; a node below the root has been the frontier once
\* and has been descended through twice, into terminal children now solved
C20_Witness ==
    /\ pc = "check"
    /\ \E id \in DOMAIN nodes :
          /\ HasParent(id)
          /\ nodes[id].expanded
          /\ ~nodes[id].freeze
          /\ nodes[id].count = 3
          /\ \E c \in ChildSet(id) :
                g_is_terminal(c[2]) /\ nodes[c].solved /\ nodes[c].count = 1

====
